---- MODULE Spec2Model ----
(***************************************************************************)
(* Model of madmom/io/__init__.py: the tempo loader load_tempo, the tempo  *)
(* reporter write_tempo and the writers write_events / write_onsets /      *)
(* write_beats / write_chords.                                             *)
(*                                                                         *)
(* Numbers are exact rationals <<n, d>> in lowest terms with d > 0,        *)
(* extended with the three IEEE specials a division by zero produces:      *)
(* <<1, 0>> = +inf, <<-1, 0>> = -inf, <<0, 0>> = nan.  Rounding errors of  *)
(* binary floating point are not modelled.                                 *)
(***************************************************************************)
EXTENDS Integers, Sequences, FiniteSets, TLC

VARIABLES
    fn,         \* the function called
    args,       \* its arguments
    pc,         \* the position in its body
    values,     \* load_tempo: <<>> until the values are loaded, then <<array>>
    ret,        \* what the call returned or raised
    file        \* the lines written to the output file

vars == <<fn, args, pc, values, ret, file>>

(***************************************************************************)
(* Bounds of the model.                                                    *)
(***************************************************************************)
MaxValues == 5      \* longest `values` handed to load_tempo
MaxMaxLen == 2      \* largest `max_len` handed to load_tempo
MaxRows == 3        \* most rows handed to write_tempo
MaxEvents == 2      \* most rows of an array handed to a writer

(***************************************************************************)
(* Arithmetic of numpy float64 values, idealised to extended rationals.    *)
(***************************************************************************)
Abs(x) == IF x < 0 THEN -x ELSE x

Sign(x) == IF x < 0 THEN -1 ELSE IF x > 0 THEN 1 ELSE 0

RECURSIVE GCD(_, _)
GCD(a, b) == IF b = 0 THEN a ELSE GCD(b, a % b)

Rat(n, d) ==
    IF d = 0 THEN <<Sign(n), 0>>
    ELSE LET g == GCD(Abs(n), Abs(d))
         IN  <<(Sign(d) * n) \div g, Abs(d) \div g>>

Zero == Rat(0, 1)
One == Rat(1, 1)
Two == Rat(2, 1)
NaN == <<0, 0>>

IsNaN(a) == a = NaN

RNeg(a) == <<-a[1], a[2]>>

RAdd(a, b) ==
    IF a[2] = 0 /\ b[2] = 0
    THEN (IF a = b THEN a ELSE NaN)
    ELSE Rat(a[1] * b[2] + b[1] * a[2], a[2] * b[2])

RSub(a, b) == RAdd(a, RNeg(b))

RMul(a, b) ==
    IF a[2] = 0 \/ b[2] = 0
    THEN <<Sign(a[1]) * Sign(b[1]), 0>>
    ELSE Rat(a[1] * b[1], a[2] * b[2])

\* true division: x / 0 is +-inf, 0 / 0 and inf / inf are nan
RDiv(a, b) ==
    IF IsNaN(a) \/ IsNaN(b) THEN NaN
    ELSE IF b[2] = 0 THEN (IF a[2] = 0 THEN NaN ELSE Zero)
    ELSE IF b[1] = 0 THEN <<Sign(a[1]), 0>>
    ELSE Rat(a[1] * b[2] * Sign(b[1]), a[2] * Abs(b[1]))

\* comparisons with nan are false
RLt(a, b) ==
    /\ ~IsNaN(a)
    /\ ~IsNaN(b)
    /\ IF a[2] = 0 /\ b[2] = 0 THEN a[1] < b[1] ELSE a[1] * b[2] < b[1] * a[2]

REq(a, b) == ~IsNaN(a) /\ ~IsNaN(b) /\ a = b

RLe(a, b) == RLt(a, b) \/ REq(a, b)

RECURSIVE RSum(_)
RSum(s) == IF s = <<>> THEN Zero ELSE RAdd(Head(s), RSum(Tail(s)))

SeqsUpTo(S, n) == UNION {[1..k -> S] : k \in 0..n}

Min(a, b) == IF a < b THEN a ELSE b

(***************************************************************************)
(* load_tempo                                                              *)
(***************************************************************************)
\* values handed to load_tempo: strengths (one of them negative), tempi
LoadValues == {Rat(-1, 2), Zero, Rat(3, 10), Rat(60, 1), Rat(120, 1)}

\* split_value: the default 1.0, and 60 (which makes the value 60 a strength)
SplitValues == {One, Rat(60, 1)}

\* max_len: <<>> is None, <<n>> is the integer n
MaxLens == {<<>>} \cup {<<n>> : n \in -1..MaxMaxLen}

LoadArgs ==
    [values : SeqsUpTo(LoadValues, MaxValues),
     malformed : BOOLEAN,
     split_value : SplitValues,
     sort : BOOLEAN,
     norm_strengths : BOOLEAN,
     max_len : MaxLens]

\* the outcome of a call; value is <<>> for None (or nothing), <<v>> for v
NoRet == [status |-> "none", msg |-> "", value |-> <<>>]

Raise(kind, text) == [status |-> kind, msg |-> text, value |-> <<>>]

Return(v) == [status |-> "returned", msg |-> "", value |-> <<v>>]

ReturnNone == [status |-> "returned", msg |-> "", value |-> <<>>]

\* the output file before anything is written
NoFile == [header |-> "", lines |-> <<>>]

\* max_len is not None and max_len < 1
InvalidMaxLenLt0(max_len) == max_len # <<>> /\ max_len[1] < 0

InvalidMaxLen(max_len) == max_len # <<>> /\ max_len[1] < 1

\* values[values > split_value]
Tempi(vals, split_value) == SelectSeq(vals, LAMBDA v : RLt(split_value, v))

\* values[values <= split_value]
Strengths(vals, split_value) == SelectSeq(vals, LAMBDA v : RLe(v, split_value))

\* np.any(strengths < 0)
AnyNegative(strengths) == \E i \in 1..Len(strengths) : RLt(strengths[i], Zero)

\* np.ones_like(tempi) / float(len(tempi))
UniformStrengthsOnes(tempi) == [i \in 1..Len(tempi) |-> One]

UniformStrengths(tempi) ==
    [i \in 1..Len(tempi) |-> RDiv(One, Rat(Len(tempi), 1))]

\* strengths /= float(strength_sum)
Normalize(strengths, strength_sum) ==
    [i \in 1..Len(strengths) |-> RDiv(strengths[i], strength_sum)]

\* the key the indices are sorted by: (-strengths)
SortKeyAscending(s) == s

SortKey(s) == RNeg(s)

\* argsort(kind='mergesort'): a stable merge sort of the indices by key;
\* the left run wins unless the right key is strictly smaller
RECURSIVE Merge(_, _, _)
Merge(key, l, r) ==
    IF l = <<>> THEN r
    ELSE IF r = <<>> THEN l
    ELSE IF RLt(key[Head(r)], key[Head(l)])
         THEN <<Head(r)>> \o Merge(key, l, Tail(r))
         ELSE <<Head(l)>> \o Merge(key, Tail(l), r)

RECURSIVE MergeSort(_, _)
MergeSort(key, idx) ==
    IF Len(idx) <= 1 THEN idx
    ELSE LET m == Len(idx) \div 2
         IN  Merge(key, MergeSort(key, SubSeq(idx, 1, m)),
                        MergeSort(key, SubSeq(idx, m + 1, Len(idx))))

ArgSort(strengths) ==
    MergeSort([i \in 1..Len(strengths) |-> SortKey(strengths[i])],
              [i \in 1..Len(strengths) |-> i])

\* a[:max_len]
Truncate(a, max_len) ==
    IF max_len = <<>> THEN a ELSE SubSeq(a, 1, Min(max_len[1], Len(a)))

\* np.vstack((tempi, strengths)).T
VStackT(tempi, strengths) == [i \in 1..Len(tempi) |-> <<tempi[i], strengths[i]>>]

\* lines 291-319 of load_tempo, on the loaded array
SplitAndComplete(vals, split_value, sort, norm_strengths, max_len) ==
    LET tempi == Tempi(vals, split_value)
        given == Strengths(vals, split_value)
        strength_sum == RSum(given)
        relative == Len(tempi) - Len(given) = 1
        completed == IF relative THEN Append(given, RSub(One, strength_sum))
                     ELSE given
        uniform == IF REq(strength_sum, Zero) THEN UniformStrengths(tempi)
                   ELSE completed
        strengths == IF norm_strengths THEN Normalize(uniform, strength_sum)
                     ELSE uniform
        sort_idx == ArgSort(strengths)
        tempi_s == IF sort THEN [i \in 1..Len(tempi) |-> tempi[sort_idx[i]]]
                   ELSE tempi
        strengths_s == IF sort THEN [i \in 1..Len(tempi) |-> strengths[sort_idx[i]]]
                       ELSE strengths
    IN  IF relative /\ AnyNegative(completed)
        THEN Raise("AssertionError", "strengths must be positive")
        ELSE IF Len(tempi) # Len(strengths)
        THEN Raise("AssertionError", "tempi and strengths must have same length")
        ELSE Return(VStackT(Truncate(tempi_s, max_len),
                            Truncate(strengths_s, max_len)))

InitLoadTempo ==
    /\ fn = "load_tempo"
    /\ args \in LoadArgs
    /\ pc = "check_max_len"
    /\ values = <<>>
    /\ ret = NoRet
    /\ file = NoFile

\* lines 279-280: the check of max_len
LoadTempoCheckMaxLen ==
    /\ fn = "load_tempo"
    /\ pc = "check_max_len"
    /\ IF InvalidMaxLen(args.max_len)
       THEN /\ ret' = Raise("ValueError", "max_len must be greater or equal to 1")
            /\ pc' = "done"
       ELSE /\ ret' = ret
            /\ pc' = "load"
    /\ UNCHANGED <<fn, args, values, file>>

\* lines 282-288: np.array(values, dtype=np.float) / np.loadtxt(values)
LoadTempoLoadValues ==
    /\ fn = "load_tempo"
    /\ pc = "load"
    /\ IF args.malformed
       THEN /\ ret' = Raise("ParseError", "could not convert string to float")
            /\ values' = values
            /\ pc' = "done"
       ELSE /\ ret' = ret
            /\ values' = <<args.values>>
            /\ pc' = "split"
    /\ UNCHANGED <<fn, args, file>>

\* lines 291-319: classify, complete, validate, sort, truncate
LoadTempoSplitAndComplete ==
    /\ fn = "load_tempo"
    /\ pc = "split"
    /\ ret' = SplitAndComplete(values[1], args.split_value, args.sort,
                               args.norm_strengths, args.max_len)
    /\ pc' = "done"
    /\ UNCHANGED <<fn, args, values, file>>

NextLoadTempo ==
    \/ LoadTempoCheckMaxLen
    \/ LoadTempoLoadValues
    \/ LoadTempoSplitAndComplete

SpecLoadTempo == InitLoadTempo /\ [][NextLoadTempo]_vars

(***************************************************************************)
(* write_tempo                                                             *)
(***************************************************************************)
\* the boundary of 68 bpm below which the fake second tempo is the double
Boundary == 68

\* '%.<k>f' % x, as the number printed: x rounded to k decimals (ties to even)
Pow10(k) == IF k = 0 THEN 1 ELSE IF k = 1 THEN 10 ELSE IF k = 2 THEN 100 ELSE 1000

FormatFloat(x, k) ==
    IF x[2] = 0 THEN x
    ELSE LET n == x[1] * Pow10(k)
             q == n \div x[2]
             r == n % x[2]
             up == 2 * r > x[2] \/ (2 * r = x[2] /\ q % 2 = 1)
         IN  Rat(IF up THEN q + 1 ELSE q, Pow10(k))

\* '%d' % x, as the number printed: x truncated towards zero
FormatInt(x) ==
    IF x[2] = 0 THEN x
    ELSE Rat(Sign(x[1]) * (Abs(x[1]) \div x[2]), 1)

WriteTempoTempi == {Rat(60, 1), Rat(Boundary, 1), Rat(120, 1)}

WriteTempoStrengths == {Zero, Rat(3, 10), Rat(7, 10)}

WriteTempoArgs ==
    [tempi : SeqsUpTo(WriteTempoTempi \X WriteTempoStrengths, MaxRows),
     mirex : BOOLEAN]

\* lines 355-358: the fake second tempo of a single tempo
FakeSecondTempoLe(t1) ==
    IF RLe(t1, Rat(Boundary, 1)) THEN RMul(t1, Two) ELSE RDiv(t1, Two)

FakeSecondTempo(t1) ==
    IF RLt(t1, Rat(Boundary, 1)) THEN RMul(t1, Two) ELSE RDiv(t1, Two)

\* lines 349-362: t1, t2, strength before the MIREX ordering
DominantTempi(tempi) ==
    IF Len(tempi) = 1
    THEN <<tempi[1][1], FakeSecondTempo(tempi[1][1]), One>>
    ELSE IF Len(tempi) > 1
    THEN <<tempi[1][1], tempi[2][1],
           RDiv(tempi[1][2], RAdd(RAdd(Zero, tempi[1][2]), tempi[2][2]))>>
    ELSE <<Zero, Zero, One>>

\* lines 364-365: for MIREX, the lower tempo must be given first
MirexOrderKeepStrength(t, mirex) ==
    IF mirex /\ RLt(t[2], t[1]) THEN <<t[2], t[1], t[3]>> ELSE t

MirexOrder(t, mirex) ==
    IF mirex /\ RLt(t[2], t[1]) THEN <<t[2], t[1], RSub(One, t[3])>> ELSE t

InitWriteTempo ==
    /\ fn = "write_tempo"
    /\ args \in WriteTempoArgs
    /\ pc = "call"
    /\ values = <<>>
    /\ ret = NoRet
    /\ file = NoFile

\* write_tempo(tempi, filename, mirex)
WriteTempo ==
    /\ fn = "write_tempo"
    /\ pc = "call"
    /\ LET out == MirexOrder(DominantTempi(args.tempi), args.mirex)
       IN  /\ file' = [header |-> "",
                       lines |-> <<[i \in 1..3 |-> FormatFloat(out[i], 2)]>>]
           /\ ret' = Return(out)
    /\ pc' = "done"
    /\ UNCHANGED <<fn, args, values>>

NextWriteTempo == WriteTempo

SpecWriteTempo == InitWriteTempo /\ [][NextWriteTempo]_vars

(***************************************************************************)
(* write_events, write_onsets, write_beats, write_chords                   *)
(***************************************************************************)
\* event times [s]; 12345/10000 does not survive the '%.3f' format
EventTimes == {Rat(1, 2), Rat(12345, 10000), Rat(2, 1)}

\* beat numbers, the second column of a 2-D beat array
BeatNumbers == {One, Two}

ChordLabels == {"C:maj", "N"}

\* numpy arrays: 1-D arrays of times, 2-D arrays of (time, beat number) rows
Arrays ==
    [ndim : {1}, data : SeqsUpTo(EventTimes, MaxEvents)]
        \cup [ndim : {2}, data : SeqsUpTo(EventTimes \X BeatNumbers, MaxEvents)]

\* structured arrays of (start, end, label) chord segments
ChordArrays ==
    [ndim : {1},
     data : SeqsUpTo({Rat(1, 2), Rat(2, 1)} \X {Rat(2, 1), Rat(12345, 10000)}
                         \X ChordLabels, MaxEvents)]

Headers == {"", "beats"}

\* np.savetxt(filename, np.asarray(events), fmt='%.3f', header=header)
SaveTxt(array, header) ==
    [header |-> header,
     lines |-> [i \in 1..Len(array.data) |->
                   IF array.ndim = 1 THEN <<FormatFloat(array.data[i], 3)>>
                   ELSE [j \in 1..Len(array.data[i]) |->
                            FormatFloat(array.data[i][j], 3)]]]

\* np.savetxt(filename, np.asarray(beats), fmt=['%.3f', '%d'], header=header)
SaveTxtBeats(array, header) ==
    [header |-> header,
     lines |-> [i \in 1..Len(array.data) |->
                   <<FormatFloat(array.data[i][1], 3), FormatInt(array.data[i][2])>>]]

\* np.savetxt(filename, chords, fmt=['%.3f', '%.3f', '%s'], delimiter='\t')
SaveTxtChords(array) ==
    [header |-> "",
     lines |-> [i \in 1..Len(array.data) |->
                   <<FormatFloat(array.data[i][1], 3),
                     FormatFloat(array.data[i][2], 3), array.data[i][3]>>]]

InitWriters ==
    /\ \/ /\ fn \in {"write_events", "write_onsets", "write_beats"}
          /\ args \in [array : Arrays, header : Headers]
       \/ /\ fn = "write_chords"
          /\ args \in [array : ChordArrays, header : {""}]
    /\ pc = "call"
    /\ values = <<>>
    /\ ret = NoRet
    /\ file = NoFile

\* lines 42-74: write_events(events, filename, header=header)
WriteEvents ==
    /\ fn = "write_events"
    /\ pc = "call"
    /\ file' = SaveTxt(args.array, args.header)
    /\ ret' = Return(args.array)
    /\ pc' = "done"
    /\ UNCHANGED <<fn, args, values>>

\* line 116: write_onsets = write_events
WriteOnsets ==
    /\ fn = "write_onsets"
    /\ pc = "call"
    /\ file' = SaveTxt(args.array, args.header)
    /\ ret' = Return(args.array)
    /\ pc' = "done"
    /\ UNCHANGED <<fn, args, values>>

\* lines 164-180: write_beats(beats, filename, header=header); the value of
\* write_events is dropped and the function ends without a return statement
WriteBeats ==
    /\ fn = "write_beats"
    /\ pc = "call"
    /\ file' = IF args.array.ndim = 2 THEN SaveTxtBeats(args.array, args.header)
               ELSE SaveTxt(args.array, args.header)
    /\ ret' = ReturnNone
    /\ pc' = "done"
    /\ UNCHANGED <<fn, args, values>>

\* lines 214-238: write_chords(chords, filename)
WriteChords ==
    /\ fn = "write_chords"
    /\ pc = "call"
    /\ file' = SaveTxtChords(args.array)
    /\ ret' = Return(args.array)
    /\ pc' = "done"
    /\ UNCHANGED <<fn, args, values>>

NextWriters ==
    \/ WriteEvents
    \/ WriteOnsets
    \/ WriteBeats
    \/ WriteChords

SpecWriters == InitWriters /\ [][NextWriters]_vars

(***************************************************************************)
(* Properties of load_tempo                                                *)
(***************************************************************************)
LoadTempoDone == fn = "load_tempo" /\ pc = "done"

LoadTempoReturned == LoadTempoDone /\ ret.status = "returned"

\* the load_tempo call got as far as classifying the values
LoadTempoClassified == LoadTempoDone /\ values # <<>>

InTempi == Tempi(args.values, args.split_value)

InStrengths == Strengths(args.values, args.split_value)

RetStrengths == [i \in 1..Len(ret.value[1]) |-> ret.value[1][i][2]]

\* the rows load_tempo returns for the same input with sort unset
UnsortedRows(max_len) ==
    SplitAndComplete(args.values, args.split_value, FALSE,
                     args.norm_strengths, max_len).value[1]

\* the place of row i among the rows u ordered by non-increasing strength,
\* rows of equal strength in the order of u
Place(u, i) ==
    1 + Cardinality({j \in 1..Len(u) : RLt(u[i][2], u[j][2])})
      + Cardinality({j \in 1..(i - 1) : REq(u[j][2], u[i][2])})

\* the one arrangement of u by non-increasing strength that keeps rows of
\* equal strength in their order
StableDescending(u) ==
    [k \in 1..Len(u) |-> u[CHOOSE i \in 1..Len(u) : Place(u, i) = k]]

\* C1: for every valid input (N tempi with N strengths, N tempi with N-1
\* strengths, or tempi without strengths), norm_strengths=True and max_len
\* unset, the returned strengths sum to 1.
C1_NormalizedStrengthsSumToOne ==
    (/\ LoadTempoReturned
     /\ args.norm_strengths
     /\ args.max_len = <<>>
     /\ Len(InTempi) >= 1
     /\ \/ Len(InStrengths) = Len(InTempi)
        \/ Len(InStrengths) = Len(InTempi) - 1
        \/ Len(InStrengths) = 0)
        => RSum(RetStrengths) = One

\* C3: every returned row has a non-negative strength, and a call that
\* classifies or synthesizes a negative strength fails with an
\* AssertionError instead of returning.
C3_StrengthsNonNegative ==
    /\ LoadTempoReturned => ~AnyNegative(RetStrengths)
    /\ (/\ LoadTempoClassified
        /\ \/ AnyNegative(InStrengths)
           \/ /\ Len(InTempi) - Len(InStrengths) = 1
              /\ RLt(RSub(One, RSum(InStrengths)), Zero))
           => ret.status = "AssertionError"

\* C4: an input with count(tempi) - count(strengths) neither 0 nor 1 and at
\* least one strength fails with an AssertionError; it never returns.
C4_ShapeMismatchFails ==
    (/\ LoadTempoClassified
     /\ Len(InTempi) - Len(InStrengths) \notin {0, 1}
     /\ Len(InStrengths) >= 1)
        => ret.status = "AssertionError"

\* C5: load_tempo ends with the ValueError of the max_len check exactly when
\* max_len is set and < 1, whatever the input (malformed input included), and
\* then before the values were loaded.
C5_InvalidMaxLenFailsFirst ==
    LoadTempoDone =>
        /\ (args.max_len # <<>> /\ args.max_len[1] < 1) <=> ret.status = "ValueError"
        /\ ret.status = "ValueError" => values = <<>>

C5_Witness ==
    /\ LoadTempoDone
    /\ args.max_len = <<0>>
    /\ args.malformed
    /\ Len(InTempi) - Len(InStrengths) = 2
    /\ ret.status = "ValueError"

\* C6 (as stated): with sort=True the returned rows are the rows of the
\* unsorted result, ordered by non-increasing strength, equal strengths in
\* input order.
C6_SortedIsPermutationOfUnsortedResult ==
    (LoadTempoReturned /\ args.sort)
        => ret.value[1] = StableDescending(UnsortedRows(args.max_len))

\* C6 (amended): with sort=True the returned rows are the first max_len rows
\* (all rows when max_len is unset) of the rows of the unsorted, untruncated
\* result ordered by non-increasing strength, equal strengths in input order.
C6_SortedThenTruncated ==
    (LoadTempoReturned /\ args.sort)
        => ret.value[1] = Truncate(StableDescending(UnsortedRows(<<>>)), args.max_len)

\* three rows that sorting reorders, two of them of equal strength
C6_Witness ==
    /\ LoadTempoReturned
    /\ args.sort
    /\ args.max_len = <<2>>
    /\ Len(UnsortedRows(<<>>)) = 3
    /\ \E i, j \in 1..3 : i < j /\ RLt(UnsortedRows(<<>>)[i][2], UnsortedRows(<<>>)[j][2])
    /\ \E i, j \in 1..3 : i < j /\ REq(UnsortedRows(<<>>)[i][2], UnsortedRows(<<>>)[j][2])
                                /\ UnsortedRows(<<>>)[i][1] # UnsortedRows(<<>>)[j][1]
    /\ Len(ret.value[1]) = 2

\* C9: with one more tempo than strengths and norm_strengths, sort and
\* max_len unset, the returned strengths are the given strengths followed by
\* 1 - sum(given strengths).
C9_RelativeStrengthCompleted ==
    (/\ LoadTempoReturned
     /\ Len(InTempi) - Len(InStrengths) = 1
     /\ ~args.norm_strengths
     /\ ~args.sort
     /\ args.max_len = <<>>)
        => RetStrengths = Append(InStrengths, RSub(One, RSum(InStrengths)))

\* C10: with at least one tempo, no strength and norm_strengths unset, the
\* call returns (given a valid max_len and well-formed values) and every
\* returned row has the strength 1 / count(tempi), whatever sort and max_len.
C10_UniformStrengths ==
    (/\ LoadTempoDone
     /\ Len(InTempi) >= 1
     /\ Len(InStrengths) = 0
     /\ ~args.norm_strengths)
        => /\ LoadTempoClassified => ret.status = "returned"
           /\ ret.status = "returned" =>
                /\ \A i \in 1..Len(ret.value[1]) :
                      ret.value[1][i][2] = Rat(1, Len(args.values))
                /\ Len(ret.value[1]) =
                      IF args.max_len = <<>> THEN Len(args.values)
                      ELSE Min(args.max_len[1], Len(args.values))
                /\ \A i \in 1..Len(ret.value[1]) : ret.value[1][i][1] = args.values[i]

C10_Witness ==
    /\ LoadTempoReturned
    /\ Len(InTempi) = 3
    /\ InTempi[1] # InTempi[2]
    /\ Len(InStrengths) = 0
    /\ ~args.norm_strengths
    /\ args.sort
    /\ args.max_len = <<2>>
    /\ Len(ret.value[1]) = 2

(***************************************************************************)
(* Properties of write_tempo                                               *)
(***************************************************************************)
WriteTempoDone == fn = "write_tempo" /\ pc = "done"

\* t1, t2 and strength of the first two of two or more rows
FirstTwoRows(tempi) ==
    <<tempi[1][1], tempi[2][1], RDiv(tempi[1][2], RAdd(tempi[1][2], tempi[2][2]))>>

\* C7: with mirex set write_tempo returns t1 <= t2: the raw triple if its
\* t1 <= t2, else (raw t2, raw t1, 1 - raw strength); for two or more rows
\* the raw triple is (tempo of row 0, tempo of row 1,
\* strength(row0) / (strength(row0) + strength(row1))).
C7_MirexLowerTempoFirst ==
    (WriteTempoDone /\ args.mirex) =>
        LET raw == IF Len(args.tempi) >= 2 THEN FirstTwoRows(args.tempi)
                   ELSE DominantTempi(args.tempi)
            out == ret.value[1]
        IN  /\ ret.status = "returned"
            /\ RLe(out[1], out[2])
            /\ out = IF RLt(raw[2], raw[1])
                     THEN <<raw[2], raw[1], RSub(One, raw[3])>>
                     ELSE raw

\* two rows, the higher tempo first, with the strengths 0.3 and 0.7
C7_Witness ==
    /\ WriteTempoDone
    /\ args.mirex
    /\ Len(args.tempi) >= 2
    /\ RLt(args.tempi[2][1], args.tempi[1][1])
    /\ args.tempi[1][2] = Rat(3, 10)
    /\ args.tempi[2][2] = Rat(7, 10)
    /\ ret.value[1] = <<args.tempi[2][1], args.tempi[1][1], Rat(7, 10)>>

\* C8: for exactly one row and mirex unset write_tempo returns t1 = the
\* tempo of the row, strength = 1.0 whatever the strength of the row, and
\* t2 = 2 * t1 if t1 < 68, else t1 / 2 (so 68 is halved).
C8_SingleTempo ==
    (WriteTempoDone /\ Len(args.tempi) = 1 /\ ~args.mirex) =>
        LET t1 == args.tempi[1][1]
        IN  /\ ret.status = "returned"
            /\ ret.value[1] = <<t1,
                                IF t1[1] < Boundary * t1[2]
                                THEN Rat(2 * t1[1], t1[2])
                                ELSE Rat(t1[1], 2 * t1[2]),
                                One>>

\* the single tempo 68 with the strength 0.3
C8_Witness ==
    /\ WriteTempoDone
    /\ ~args.mirex
    /\ args.tempi = <<<<Rat(Boundary, 1), Rat(3, 10)>>>>
    /\ ret.value[1] = <<Rat(Boundary, 1), Rat(34, 1), One>>

(***************************************************************************)
(* Properties of the writers                                               *)
(***************************************************************************)
\* C2: every writer (write_events, write_onsets, write_beats, write_chords)
\* returns the array it was given, for 1-D and 2-D arrays alike.
C2_WritersReturnInput ==
    (/\ fn \in {"write_events", "write_onsets", "write_beats", "write_chords"}
     /\ pc = "done")
        => ret.status = "returned" /\ ret.value = <<args.array>>

====
